---- MODULE Spec2Model ----
(***************************************************************************)
(* Outline diagnostics of the RPA form scripts:                            *)
(*   inspect_rpa_form_outline.py   loader, comparator, summarizer, main    *)
(*   find_rpa_forms_with_outline.py   the series scan                      *)
(* Strings are sequences of one-character strings so that Python's         *)
(* substring test and truthiness of strings are computed, not assumed.     *)
(***************************************************************************)
EXTENDS Integers, Sequences, FiniteSets, TLC

VARIABLES
    \* --- _compare_outlines called on a pair of outlines
    current,            \* argument `current`
    version_outline,    \* argument `version_outline`
    cmp_result,         \* the returned dict, or NotCalled
    \* --- _get_outline_summary called on an outline
    outline,            \* argument `outline` (an outline or None)
    summary,            \* the returned dict, or NotCalled
    \* --- inspect_rpa_form_outline: the loader and the task main
    disk,               \* the reference documents: path -> file state
    db_outline,         \* form_outline of the fill config the services return
    pc,                 \* position of main ("idle" before it is invoked)
    args,               \* main's effective form_series_id and form_id
    calls,              \* external lookups made so far, in order
    opened,             \* paths handed to open(), in order
    log,                \* logger.error records, in order
    loaded,             \* result of a direct call of the loader, or NotCalled
    current_summary,    \* main's local current_summary
    vidx,               \* index into versions_to_check of the loop
    comparison_results, \* main's local comparison_results
    out,                \* the printed report, as tagged lines
    \* --- find_rpa_forms_with_outline.main (it shares pc, args, calls, log, out)
    rows,               \* what the forms query and the per-form lookups will return
    all_forms,          \* main's local all_forms
    fidx,               \* index into all_forms of the loop
    forms_with_outline,     \* main's local list
    forms_without_outline,  \* main's local list
    \* --- check_form_outline_by_uuid.main (it shares pc, calls, out)
    uuid_env,           \* what the lookup, the resolver and the serializer will do
    form_uuid,          \* main's argument
    result_dict,        \* main's local result_dict, or NotCalled
    escaped             \* class of an exception that left main, or NoString

cmpVars == <<current, version_outline, cmp_result>>
sumVars == <<outline, summary>>
envVars == <<disk, db_outline>>
mainVars == <<pc, args, calls, current_summary, vidx, comparison_results, out>>
loadVars == <<opened, log, loaded>>
inspectVars == <<envVars, mainVars, loadVars>>
scanVars == <<rows, all_forms, fidx, forms_with_outline, forms_without_outline>>
uuidVars == <<uuid_env, form_uuid, result_dict, escaped>>
vars == <<cmpVars, sumVars, inspectVars, scanVars, uuidVars>>

(***************************************************************************)
(* Bounds of the model                                                     *)
(***************************************************************************)
MaxCmpTerms == 2    \* longest outline handed to the comparator
MaxKids == 1        \* longest child list generated for a summarized section or combo
MaxBefore == 5      \* repetitions of a filler term before the varied term
MaxAfter == 2       \* repetitions of a filler term after the varied term
MaxForms == 3       \* most forms the series query returns

(***************************************************************************)
(* Python values                                                           *)
(***************************************************************************)
None == [none |-> TRUE]
\* None where the other values are strings (both are falsy in `x or y`, `if x`)
NoString == ""
NotCalled == [called |-> FALSE]

\* Python `sub in s` on strings
Contains(sub, s) ==
    \E i \in 0..(Len(s) - Len(sub)) : SubSeq(s, i + 1, i + Len(sub)) = sub

\* Python slice s[:n]
Take(s, n) == SubSeq(s, 1, IF Len(s) < n THEN Len(s) ELSE n)

\* Python str(n) for the small positive integers the code formats
Digits == <<"0", "1", "2", "3", "4", "5", "6", "7", "8", "9">>
RECURSIVE IntToStr(_)
IntToStr(n) == IF n < 10 THEN <<Digits[n + 1]>>
               ELSE IntToStr(n \div 10) \o <<Digits[(n % 10) + 1]>>

(***************************************************************************)
(* String literals of the source and of the test data                      *)
(***************************************************************************)
sBroker == <<"B", "r", "o", "k", "e", "r">>
sbroker == <<"b", "r", "o", "k", "e", "r">>
s29 == <<"2", "9">>
sother3 == <<"o", "t", "h", "e", "r", "3">>

tIntro == <<"I", "n", "t", "r", "o">>
tBrokerInfo == sBroker \o <<" ", "I", "n", "f", "o">>
tBrokerName == sBroker \o <<" ", "N", "a", "m", "e">>
tLowerFee == sbroker \o <<" ", "f", "e", "e">>
tUPPER == <<"B", "R", "O", "K", "E", "R">>
tLine29 == <<"L", "i", "n", "e", " ">> \o s29
tOther3 == <<"x", "_">> \o sother3
tEmpty == <<>>

(***************************************************************************)
(* FormOutline.Term: number, title, kind and the payloads section, combo   *)
(* (ordered child terms) and fieldIds (name -> id entries).                *)
(***************************************************************************)
FIELD == 0
SECTION == 1
COMBO == 2

\* reform_pb2.FormOutline.Term.Kind.Name
KindName(k) == CASE k = FIELD -> "FIELD"
                 [] k = SECTION -> "SECTION"
                 [] k = COMBO -> "COMBO"

Term(n, t, k, sec, cmb, fids) ==
    [number |-> n, title |-> t, kind |-> k,
     section |-> sec, combo |-> cmb, fieldIds |-> fids]

Leaf(n, t, k) == Term(n, t, k, <<>>, <<>>, <<>>)
Sec(n, t, kids) == Term(n, t, SECTION, kids, <<>>, <<>>)
Combo(n, t, kids) == Term(n, t, COMBO, <<>>, kids, <<>>)

Outline(ts) == [terms |-> ts]
EmptyOutline == Outline(<<>>)

\* all sequences over S of length at most n
RECURSIVE SeqsUpTo(_, _)
SeqsUpTo(S, n) ==
    IF n = 0 THEN {<<>>}
    ELSE LET shorter == SeqsUpTo(S, n - 1)
         IN  shorter \cup {Append(s, x) : s \in shorter, x \in S}

(***************************************************************************)
(* Message equality (`current == version_outline`): field by field,        *)
(* repeated fields element by element in order, recursively.               *)
(***************************************************************************)
RECURSIVE TermFieldsEqual(_, _)
TermsEqual(s, t) ==
    /\ Len(s) = Len(t)
    /\ \A i \in 1..Len(s) : TermFieldsEqual(s[i], t[i])

\* plausible slip: repeated child terms compared as an unordered collection
TermFieldsEqualUnordered(a, b) ==
    /\ a.number = b.number
    /\ a.title = b.title
    /\ a.kind = b.kind
    /\ {a.section[i] : i \in 1..Len(a.section)} = {b.section[i] : i \in 1..Len(b.section)}
    /\ {a.combo[i] : i \in 1..Len(a.combo)} = {b.combo[i] : i \in 1..Len(b.combo)}
    /\ a.fieldIds = b.fieldIds

TermFieldsEqual(a, b) ==
    /\ a.number = b.number
    /\ a.title = b.title
    /\ a.kind = b.kind
    /\ TermsEqual(a.section, b.section)
    /\ TermsEqual(a.combo, b.combo)
    /\ a.fieldIds = b.fieldIds

OutlineEq(a, b) == TermsEqual(a.terms, b.terms)

(***************************************************************************)
(* _compare_outlines                                                       *)
(***************************************************************************)
\* plausible slip: the two branches of the status test exchanged
_compare_outlines_swapped(cur, version, ref) ==
    IF ~OutlineEq(cur, ref)
    THEN [version |-> version, matches |-> OutlineEq(cur, ref), status |-> "MATCH"]
    ELSE [version |-> version, matches |-> OutlineEq(cur, ref), status |-> "NO_MATCH",
          current_term_count |-> Len(cur.terms),
          version_term_count |-> Len(ref.terms)]

\* plausible slip: the counts reported on a match as well
_compare_outlines_counts_always(cur, version, ref) ==
    [version |-> version, matches |-> OutlineEq(cur, ref),
     status |-> IF OutlineEq(cur, ref) THEN "MATCH" ELSE "NO_MATCH",
     current_term_count |-> Len(cur.terms),
     version_term_count |-> Len(ref.terms)]

_compare_outlines(cur, version, ref) ==
    IF OutlineEq(cur, ref)
    THEN [version |-> version, matches |-> OutlineEq(cur, ref), status |-> "MATCH"]
    ELSE [version |-> version, matches |-> OutlineEq(cur, ref), status |-> "NO_MATCH",
          current_term_count |-> IF Len(cur.terms) > 0 THEN Len(cur.terms) ELSE 0,
          version_term_count |-> IF Len(ref.terms) > 0 THEN Len(ref.terms) ELSE 0]

(***************************************************************************)
(* The state of the scripts before any of them is invoked                  *)
(***************************************************************************)
UuidIdle ==
    /\ uuid_env = NotCalled
    /\ form_uuid = NoString
    /\ result_dict = NotCalled
    /\ escaped = NoString

NoArgs == [form_series_id |-> NoString, form_id |-> NoString]

InspectIdle ==
    /\ disk = [p \in {} |-> None]
    /\ db_outline = EmptyOutline
    /\ pc = "idle"
    /\ args = NoArgs
    /\ calls = <<>>
    /\ opened = <<>>
    /\ log = <<>>
    /\ loaded = NotCalled
    /\ current_summary = NotCalled
    /\ vidx = 0
    /\ comparison_results = <<>>
    /\ out = <<>>
    /\ rows = <<>>
    /\ all_forms = <<>>
    /\ fidx = 0
    /\ forms_with_outline = <<>>
    /\ forms_without_outline = <<>>
    /\ UuidIdle

(***************************************************************************)
(* Inputs of the comparator: outlines over terms that differ pairwise in   *)
(* one number, one title, one kind, or the order of children at depth 1    *)
(* or depth 2, in a section or in a combo.                                 *)
(***************************************************************************)
cA == Leaf(<<"1">>, tIntro, FIELD)
cB == Leaf(<<"2">>, tIntro, FIELD)
cC == Leaf(<<"1">>, tBrokerName, FIELD)
cD == Leaf(<<"1">>, tIntro, COMBO)

CmpTops ==
    { cA, cB, cC, cD,
      Sec(<<"3">>, tBrokerInfo, <<cA, cB>>),
      Sec(<<"3">>, tBrokerInfo, <<cB, cA>>),
      Combo(<<"4">>, tIntro, <<Sec(<<>>, tIntro, <<cA, cC>>)>>),
      Combo(<<"4">>, tIntro, <<Sec(<<>>, tIntro, <<cC, cA>>)>>) }

CmpOutlines == {Outline(ts) : ts \in SeqsUpTo(CmpTops, MaxCmpTerms)}
CmpVersions == {"1", "4"}

InitCompare ==
    /\ current \in CmpOutlines
    /\ version_outline \in CmpOutlines
    /\ cmp_result = NotCalled
    /\ outline = None
    /\ summary = NotCalled
    /\ InspectIdle

Compare ==
    /\ cmp_result = NotCalled
    /\ \E version \in CmpVersions :
           cmp_result' = _compare_outlines(current, version, version_outline)
    /\ UNCHANGED <<current, version_outline, sumVars, inspectVars, scanVars, uuidVars>>

NextCompare == Compare
SpecCompare == InitCompare /\ [][NextCompare]_vars

\* C1: comparing any outline with itself yields status MATCH and matches = TRUE.
C1_SelfCompareMatches ==
    (cmp_result # NotCalled /\ current = version_outline)
        => (cmp_result.status = "MATCH" /\ cmp_result.matches = TRUE)

C1_Witness ==
    /\ cmp_result # NotCalled
    /\ current = version_outline
    /\ Len(current.terms) = MaxCmpTerms
    /\ \E i \in 1..Len(current.terms) : Len(current.terms[i].combo) > 0
    /\ cmp_result.status = "MATCH"

\* the empty outline compared with itself
C1_WitnessEmpty ==
    /\ cmp_result # NotCalled
    /\ current = EmptyOutline
    /\ version_outline = EmptyOutline
    /\ cmp_result.status = "MATCH"

\* C2: outlines that differ (in a title, a number, a kind, or the order of
\* terms under a parent, at any depth) compare as NO_MATCH.
C2_DifferentIsNoMatch ==
    (cmp_result # NotCalled /\ current # version_outline)
        => (cmp_result.status = "NO_MATCH" /\ cmp_result.matches = FALSE)

\* the same multiset of terms under every parent, another order at depth 2
SameUpToOrder(a, b) ==
    /\ Len(a.terms) = 1 /\ Len(b.terms) = 1
    /\ Len(a.terms[1].combo) = 1 /\ Len(b.terms[1].combo) = 1
    /\ LET x == a.terms[1].combo[1].section
           y == b.terms[1].combo[1].section
       IN  /\ Len(x) = 2 /\ Len(y) = 2
           /\ x[1] = y[2] /\ x[2] = y[1] /\ x[1] # x[2]

C2_Witness ==
    /\ cmp_result # NotCalled
    /\ SameUpToOrder(current, version_outline)
    /\ cmp_result.status = "NO_MATCH"

(***************************************************************************)
(* _get_outline_summary                                                    *)
(***************************************************************************)
SampleLimit == 5
IdentLimit == 10
\* the prefix of a child entry: two spaces, U+2514, U+2500, one space
ChildMark == <<" ", " ", "U+2514", "U+2500", " ">>

\* str(subterm): the message's text rendering.  Every populated field is
\* printed, nested messages included; field names and punctuation are
\* single tokens, values are printed character by character.
RECURSIVE StrOfTerm(_), StrOfTerms(_, _, _)
StrOfFieldIds(fids, i) ==
    LET RECURSIVE Go(_)
        Go(k) == IF k > Len(fids) THEN <<>>
                 ELSE <<"field_ids {", "key:">> \o fids[k].key
                      \o <<"value:">> \o fids[k].value \o <<"}">> \o Go(k + 1)
    IN  Go(i)

StrOfTerms(label, ts, i) ==
    IF i > Len(ts) THEN <<>>
    ELSE <<"terms {">> \o StrOfTerm(ts[i]) \o <<"}">> \o StrOfTerms(label, ts, i + 1)

StrOfTerm(t) ==
       (IF t.number # <<>> THEN <<"number:">> \o t.number \o <<"\n">> ELSE <<>>)
    \o (IF t.title # <<>> THEN <<"title:">> \o t.title \o <<"\n">> ELSE <<>>)
    \o (IF t.kind # 0 THEN <<"kind:", KindName(t.kind), "\n">> ELSE <<>>)
    \o (IF Len(t.section) > 0
        THEN <<"section {">> \o StrOfTerms("section", t.section, 1) \o <<"}">> ELSE <<>>)
    \o (IF Len(t.combo) > 0
        THEN <<"combo {">> \o StrOfTerms("combo", t.combo, 1) \o <<"}">> ELSE <<>>)
    \o StrOfFieldIds(t.fieldIds, 1)

\* line 64: terms_count = len(outline.terms)
RECURSIVE CountAll(_, _)
CountAll(ts, i) ==
    IF i > Len(ts) THEN 0
    ELSE 1 + CountAll(ts[i].section, 1) + CountAll(ts[i].combo, 1) + CountAll(ts, i + 1)

\* plausible slip: nested terms counted too
TermsCountNested(o) == CountAll(o.terms, 1)

TermsCount(o) == Len(o.terms)

\* lines 68-74: one sample per titled term among the first five
SampleOf(term, i) ==
    [number |-> IF term.number # <<>> THEN term.number ELSE IntToStr(i + 1),
     title |-> term.title,
     kind |-> KindName(term.kind)]

\* plausible slip: the `if term.title` test dropped
SampleTermsKeepEmpty(terms) ==
    LET first == Take(terms, SampleLimit)
    IN  [k \in 1..Len(first) |-> SampleOf(first[k], k - 1)]

SampleTerms(terms) ==
    LET first == Take(terms, SampleLimit)
        RECURSIVE Go(_)
        Go(k) == IF k > Len(first) THEN <<>>
                 ELSE (IF first[k].title # <<>> THEN <<SampleOf(first[k], k - 1)>> ELSE <<>>)
                      \o Go(k + 1)
    IN  Go(1)

\* line 79
IsIdentTop(term) ==
    Contains(sBroker, term.title) \/ Contains(sbroker, term.title)

\* line 83
\* plausible slip: the 'other3' test applied to the title only
IsIdentSubTitleOnly(subterm) ==
    \/ Contains(sBroker, subterm.title)
    \/ Contains(s29, subterm.title)
    \/ Contains(sother3, subterm.title)

IsIdentSub(subterm) ==
    \/ Contains(sBroker, subterm.title)
    \/ Contains(s29, subterm.title)
    \/ Contains(sother3, StrOfTerm(subterm))

\* lines 81-84: the children of term.section, in order
IdentOfSection(subterms) ==
    LET RECURSIVE Go(_)
        Go(j) == IF j > Len(subterms) THEN <<>>
                 ELSE (IF IsIdentSub(subterms[j])
                       THEN <<ChildMark \o subterms[j].title>> ELSE <<>>)
                      \o Go(j + 1)
    IN  Go(1)

\* plausible slip: only the children are scanned, the term's own title is not
IdentOfTermChildrenOnly(term) ==
    IF Len(term.section) > 0 THEN IdentOfSection(term.section) ELSE <<>>

\* lines 79-84: one pass of the loop body
IdentOfTerm(term) ==
       (IF IsIdentTop(term) THEN <<term.title>> ELSE <<>>)
    \o (IF Len(term.section) > 0 THEN IdentOfSection(term.section) ELSE <<>>)

\* lines 77-84
IdentifiableTerms(terms) ==
    LET RECURSIVE Go(_)
        Go(i) == IF i > Len(terms) THEN <<>>
                 ELSE IdentOfTerm(terms[i]) \o Go(i + 1)
    IN  Go(1)

_get_outline_summary(o) ==
    IF o = None \/ Len(o.terms) = 0
    THEN [term_count |-> 0, is_empty |-> TRUE, sample_terms |-> <<>>]
    ELSE [term_count |-> TermsCount(o),
          is_empty |-> FALSE,
          sample_terms |-> Take(SampleTerms(o.terms), SampleLimit),
          identifiable_terms |-> Take(IdentifiableTerms(o.terms), IdentLimit)]

(***************************************************************************)
(* Inputs of the summarizer: one varied top-level term between runs of a   *)
(* repeated filler term.                                                   *)
(***************************************************************************)
kBrokerName == Term(<<>>, tBrokerName, FIELD, <<>>, <<>>, <<>>)
kLine29 == Leaf(<<>>, tLine29, FIELD)
kLower == Leaf(<<>>, tLowerFee, FIELD)
kPlain == Leaf(<<"1">>, tIntro, FIELD)
kFieldOther3 ==
    Term(<<>>, tIntro, FIELD, <<>>, <<>>, <<[key |-> tOther3, value |-> <<"f", "7">>]>>)
kDeepBroker == Sec(<<>>, tIntro, <<kBrokerName>>)
kDeepOther3 == Sec(<<>>, tIntro, <<Leaf(<<>>, tOther3, FIELD)>>)

Kids == {kBrokerName, kLine29, kLower, kPlain, kFieldOther3, kDeepBroker, kDeepOther3}
KidLists == SeqsUpTo(Kids, MaxKids) \ {<<>>}

fIntro == Leaf(<<"1">>, tIntro, FIELD)
fUntitled == Leaf(<<>>, tEmpty, FIELD)
fBrokerSec == Sec(<<"2">>, tBrokerInfo, <<kBrokerName, kLine29>>)
Fillers == {fIntro, fUntitled, fBrokerSec}

SumTops ==
    { fIntro, fUntitled,
      Leaf(<<>>, tUPPER, FIELD),
      Leaf(<<>>, tLowerFee, FIELD),
      Leaf(<<"7">>, tLine29, FIELD) }
    \cup {Sec(<<"2">>, tBrokerInfo, kl) : kl \in KidLists}
    \cup {Sec(<<>>, tIntro, kl) : kl \in KidLists}
    \cup {Combo(<<>>, tIntro, kl) : kl \in KidLists}

Repeat(x, n) == [i \in 1..n |-> x]

SumOutlines ==
    { Outline(Repeat(f, a) \o mid \o Repeat(g, b)) :
        f \in Fillers, a \in 0..MaxBefore,
        mid \in {<<>>} \cup {<<t>> : t \in SumTops},
        g \in Fillers, b \in 0..MaxAfter }

InitSummary ==
    /\ outline \in SumOutlines \cup {None}
    /\ summary = NotCalled
    /\ current = EmptyOutline
    /\ version_outline = EmptyOutline
    /\ cmp_result = NotCalled
    /\ InspectIdle

Summarize ==
    /\ summary = NotCalled
    /\ summary' = _get_outline_summary(outline)
    /\ UNCHANGED <<outline, cmpVars, inspectVars, scanVars, uuidVars>>

NextSummary == Summarize
SpecSummary == InitSummary /\ [][NextSummary]_vars

Min(a, b) == IF a < b THEN a ELSE b
Absent(o) == o = None
TopLevel(o) == IF Absent(o) THEN <<>> ELSE o.terms
HasNested(o) == \E i \in 1..Len(TopLevel(o)) :
                    Len(o.terms[i].section) > 0 \/ Len(o.terms[i].combo) > 0

\* C3: term_count is the number of top-level terms whatever is nested below
\* them, and is_empty (with term_count 0) holds exactly for an absent outline
\* or one without top-level terms.
C3_TermCountTopLevel ==
    summary # NotCalled =>
        /\ summary.term_count = Len(TopLevel(outline))
        /\ summary.is_empty <=> (Absent(outline) \/ Len(TopLevel(outline)) = 0)
        /\ summary.is_empty => summary.term_count = 0

C3_Witness ==
    /\ summary # NotCalled
    /\ ~Absent(outline)
    /\ HasNested(outline)
    /\ \E i \in 1..Len(outline.terms) :
           \E j \in 1..Len(outline.terms[i].section) :
               Len(outline.terms[i].section[j].section) > 0
    /\ summary.term_count = Len(outline.terms)
    /\ summary.term_count > SampleLimit
    /\ ~summary.is_empty

\* the absent outline is summarized as empty
C3_WitnessAbsent ==
    summary # NotCalled /\ Absent(outline) /\ summary.is_empty

\* C4 as stated: sample_terms has length min(5, term_count) and holds no
\* empty title.
C4_SampleLengthIsMin ==
    summary # NotCalled =>
        /\ Len(summary.sample_terms) = Min(SampleLimit, summary.term_count)
        /\ \A k \in 1..Len(summary.sample_terms) : summary.sample_terms[k].title # <<>>

TitledAmongFirst(o) ==
    {i \in 1..Min(SampleLimit, Len(TopLevel(o))) : o.terms[i].title # <<>>}

\* C4 amended: sample_terms has one entry per titled term among the first
\* five top-level terms (so at most min(5, term_count) entries), none with an
\* empty title, and untitled terms are still counted in term_count.
C4_SampleLengthIsTitledFirstFive ==
    summary # NotCalled =>
        /\ Len(summary.sample_terms) = Cardinality(TitledAmongFirst(outline))
        /\ Len(summary.sample_terms) <= Min(SampleLimit, summary.term_count)
        /\ \A k \in 1..Len(summary.sample_terms) : summary.sample_terms[k].title # <<>>
        /\ summary.term_count = Len(TopLevel(outline))

C4_Witness ==
    /\ summary # NotCalled
    /\ ~Absent(outline)
    /\ Len(outline.terms) > SampleLimit
    /\ \E i \in 1..SampleLimit : outline.terms[i].title = <<>>
    /\ \E i \in 1..SampleLimit : outline.terms[i].title # <<>>
    /\ Len(summary.sample_terms) < SampleLimit
    /\ summary.term_count = Len(outline.terms)

\* the scenario outline of C5
ScenarioOutline ==
    Outline(<< [number |-> <<"1">>, title |-> tIntro, kind |-> FIELD,
                section |-> <<>>, combo |-> <<>>, fieldIds |-> <<>>],
               [number |-> <<"2">>, title |-> tBrokerInfo, kind |-> SECTION,
                section |-> << [number |-> <<>>, title |-> tBrokerName, kind |-> 0,
                                section |-> <<>>, combo |-> <<>>, fieldIds |-> <<>>] >>,
                combo |-> <<>>, fieldIds |-> <<>>] >>)

\* C5 as stated: the scenario yields term_count 2 and identifiable_terms
\* holding only the child entry.
C5_ScenarioChildOnly ==
    (summary # NotCalled /\ outline = ScenarioOutline) =>
        /\ summary.term_count = 2
        /\ summary.identifiable_terms = <<ChildMark \o tBrokerName>>

\* C5 amended: the scenario yields term_count 2 and identifiable_terms
\* holding the section's own title 'Broker Info' followed by the child entry.
C5_ScenarioParentThenChild ==
    (summary # NotCalled /\ outline = ScenarioOutline) =>
        /\ summary.term_count = 2
        /\ summary.identifiable_terms = <<tBrokerInfo, ChildMark \o tBrokerName>>

C5_Witness ==
    /\ summary # NotCalled
    /\ outline = ScenarioOutline
    /\ Len(summary.identifiable_terms) = 2

\* str.lower() on the letters the data uses
Upper == <<"A", "B", "C", "D", "E", "F", "G", "H", "I", "J", "K", "L", "M",
           "N", "O", "P", "Q", "R", "S", "T", "U", "V", "W", "X", "Y", "Z">>
Lower == <<"a", "b", "c", "d", "e", "f", "g", "h", "i", "j", "k", "l", "m",
           "n", "o", "p", "q", "r", "s", "t", "u", "v", "w", "x", "y", "z">>
LowerChar(c) == IF \E k \in 1..Len(Upper) : Upper[k] = c
                THEN Lower[CHOOSE k \in 1..Len(Upper) : Upper[k] = c]
                ELSE c
ToLower(str) == [k \in 1..Len(str) |-> LowerChar(str[k])]
ContainsAnyCase(word, str) == Contains(ToLower(word), ToLower(str))

\* The entries selected by a predicate on top-level terms and a predicate on
\* the direct children of a top-level term's section, listed by position
\* (top-level index, then 0 for the term itself or the child's index).
EntriesInOrder(o, TopOK(_), SubOK(_)) ==
    LET ts == o.terms
        Pos == {<<i, 0>> : i \in {i \in 1..Len(ts) : TopOK(ts[i])}}
               \cup UNION { {<<i, j>> : j \in {j \in 1..Len(ts[i].section) :
                                                 SubOK(ts[i].section[j])}} :
                            i \in 1..Len(ts) }
        Before(p, q) == p[1] < q[1] \/ (p[1] = q[1] /\ p[2] < q[2])
        Rank(p) == Cardinality({q \in Pos : Before(q, p)}) + 1
        Text(p) == IF p[2] = 0 THEN ts[p[1]].title
                   ELSE ChildMark \o ts[p[1]].section[p[2]].title
    IN  [k \in 1..Cardinality(Pos) |-> Text(CHOOSE p \in Pos : Rank(p) = k)]

ClaimedTop(t) == ContainsAnyCase(sbroker, t.title)
ClaimedSub(t) == ContainsAnyCase(sbroker, t.title) \/ Contains(s29, t.title)

\* C6 as stated: identifiable_terms is the first 10, in traversal order, of
\* the top-level titles holding 'broker' in any letter case and the titles of
\* direct section children holding 'broker' in any letter case or '29'.
C6_IdentAnyCase ==
    (summary # NotCalled /\ ~summary.is_empty) =>
        summary.identifiable_terms
            = Take(EntriesInOrder(outline, ClaimedTop, ClaimedSub), IdentLimit)

\* word occurs in str at some offset (stated by position, not by slicing)
OccursIn(word, str) ==
    \E off \in 0..Len(str) :
        /\ off + Len(word) <= Len(str)
        /\ \A k \in 1..Len(word) : str[off + k] = word[k]

ActualTop(t) == OccursIn(sBroker, t.title) \/ OccursIn(sbroker, t.title)
ActualSub(t) ==
    \/ OccursIn(sBroker, t.title)
    \/ OccursIn(s29, t.title)
    \/ OccursIn(sother3, StrOfTerm(t))

\* C6 amended: identifiable_terms is the first 10, in traversal order, of the
\* top-level titles holding 'Broker' or 'broker' (these two spellings only)
\* and, for each direct child of a top-level term's section, the child's
\* title behind the child mark when the title holds 'Broker' or '29' or the
\* child's text rendering holds 'other3'; terms inside a combo, and terms
\* more than one level deep, contribute no entry of their own.
C6_IdentExactSpellings ==
    (summary # NotCalled /\ ~summary.is_empty) =>
        summary.identifiable_terms
            = Take(EntriesInOrder(outline, ActualTop, ActualSub), IdentLimit)

C6_Witness ==
    /\ summary # NotCalled
    /\ ~summary.is_empty
    /\ Len(EntriesInOrder(outline, ActualTop, ActualSub)) > IdentLimit
    /\ Len(summary.identifiable_terms) = IdentLimit
    /\ \E i \in 1..Len(outline.terms) :
           /\ Len(outline.terms[i].combo) > 0
           /\ ActualSub(outline.terms[i].combo[1])

\* a child entry that only the 'other3' test on the rendering selects
C6_WitnessRendering ==
    /\ summary # NotCalled
    /\ ~summary.is_empty
    /\ summary.identifiable_terms = <<ChildMark \o tIntro>>
    /\ \E i \in 1..Len(outline.terms) :
           \E j \in 1..Len(outline.terms[i].section) :
               Len(outline.terms[i].section[j].section) > 0

(***************************************************************************)
(* Reference documents and helpers.protobufs.json_format.Parse             *)
(***************************************************************************)
RPA_FORM_SERIES_ID == "829"
OutlinePath(version) == <<"/code/web/flows/handlers/app/rpa/outline", version, ".json">>

FileMissing == [exists |-> FALSE]
FileUnreadable == [exists |-> TRUE, readable |-> FALSE]
FileNotJson == [exists |-> TRUE, readable |-> TRUE, json |-> FALSE]
FileJson(doc) == [exists |-> TRUE, readable |-> TRUE, json |-> TRUE, doc |-> doc]

KindNames == {"FIELD", "SECTION", "COMBO"}
KindValue(name) == CHOOSE k \in {FIELD, SECTION, COMBO} : KindName(k) = name
JsonGet(obj, key, default) == IF key \in DOMAIN obj THEN obj[key] ELSE default
TermKeys == {"number", "title", "kind", "section", "combo", "fieldIds"}

\* a JSON object that names only fields of the message, recursively
RECURSIVE ValidTermJson(_)
ValidTermsJson(obj) ==
    /\ DOMAIN obj \subseteq {"terms"}
    /\ \A i \in 1..Len(JsonGet(obj, "terms", <<>>)) : ValidTermJson(obj.terms[i])
ValidTermJson(j) ==
    /\ DOMAIN j \subseteq TermKeys
    /\ JsonGet(j, "kind", "FIELD") \in KindNames
    /\ ValidTermsJson(JsonGet(j, "section", <<>>))
    /\ ValidTermsJson(JsonGet(j, "combo", <<>>))

\* the message built from a valid JSON object: absent fields take defaults
RECURSIVE ParseTerm(_)
ParseTerms(obj) ==
    LET ts == JsonGet(obj, "terms", <<>>)
    IN  [i \in 1..Len(ts) |-> ParseTerm(ts[i])]
ParseTerm(j) ==
    Term(JsonGet(j, "number", <<>>),
         JsonGet(j, "title", <<>>),
         KindValue(JsonGet(j, "kind", "FIELD")),
         ParseTerms(JsonGet(j, "section", <<>>)),
         ParseTerms(JsonGet(j, "combo", <<>>)),
         JsonGet(j, "fieldIds", <<>>))
ParseOutline(doc) == Outline(ParseTerms(doc))

(***************************************************************************)
(* _load_outline_version: the value returned, the paths opened, the        *)
(* errors logged, and whether an exception leaves the function.            *)
(***************************************************************************)
LoadResult(value, paths, errors, raised) ==
    [value |-> value, opened |-> paths, errors |-> errors, raised |-> raised]
LoadError(version) == [level |-> "error", what |-> "load outline version", version |-> version]

\* plausible slip: no sentinel, version '0' resolved like any other
_load_outline_version_no_sentinel(version, d) ==
    LET path == OutlinePath(version)
        file == IF path \in DOMAIN d THEN d[path] ELSE FileMissing
    IN  IF ~file.exists \/ ~file.readable \/ ~file.json \/ ~ValidTermsJson(file.doc)
        THEN LoadResult(None, <<path>>, <<LoadError(version)>>, FALSE)
        ELSE LoadResult(ParseOutline(file.doc), <<path>>, <<>>, FALSE)

\* plausible slip: `except OSError`, so a malformed document raises
_load_outline_version_narrow_except(version, d) ==
    IF version = "0" THEN LoadResult(EmptyOutline, <<>>, <<>>, FALSE)
    ELSE LET path == OutlinePath(version)
             file == IF path \in DOMAIN d THEN d[path] ELSE FileMissing
         IN  IF ~file.exists \/ ~file.readable
             THEN LoadResult(None, <<path>>, <<LoadError(version)>>, FALSE)
             ELSE IF ~file.json \/ ~ValidTermsJson(file.doc)
             THEN LoadResult(None, <<path>>, <<>>, TRUE)
             ELSE LoadResult(ParseOutline(file.doc), <<path>>, <<>>, FALSE)

_load_outline_version(version, d) ==
    IF version = "0" THEN LoadResult(EmptyOutline, <<>>, <<>>, FALSE)
    ELSE LET path == OutlinePath(version)
             file == IF path \in DOMAIN d THEN d[path] ELSE FileMissing
         IN  IF ~file.exists \/ ~file.readable \/ ~file.json \/ ~ValidTermsJson(file.doc)
             THEN LoadResult(None, <<path>>, <<LoadError(version)>>, FALSE)
             ELSE LoadResult(ParseOutline(file.doc), <<path>>, <<>>, FALSE)

(***************************************************************************)
(* inspect_rpa_form_outline.main                                           *)
(***************************************************************************)
versions_to_check == <<"1", "2", "3", "4">>

Line(tag) == [tag |-> tag]
VersionLine(tag, version) == [tag |-> tag, version |-> version]

\* lines 181-191: one line per comparison result
DisplayResults(results) ==
    [k \in 1..Len(results) |->
        IF results[k].status = "MATCH"
        THEN VersionLine("MATCH", results[k].version)
        ELSE IF "current_term_count" \in DOMAIN results[k]
                /\ "version_term_count" \in DOMAIN results[k]
        THEN [tag |-> "NO_MATCH", version |-> results[k].version,
              current |-> results[k].current_term_count,
              reference |-> results[k].version_term_count]
        ELSE VersionLine("NO_MATCH", results[k].version)]

\* plausible slip: the `break` of line 202 missing, the last match wins
MatchedVersionNoBreak(results) ==
    LET hits == {k \in 1..Len(results) : results[k].status = "MATCH"}
    IN  IF hits = {} THEN NoString
        ELSE results[CHOOSE k \in hits : \A h \in hits : k >= h].version

\* lines 198-202: the first result with status MATCH, or None
MatchedVersion(results) ==
    LET hits == {k \in 1..Len(results) : results[k].status = "MATCH"}
    IN  IF hits = {} THEN NoString
        ELSE results[CHOOSE k \in hits : \A h \in hits : k <= h].version

\* lines 204-222
SummaryLines(results, cs) ==
    LET matched_version == MatchedVersion(results)
        latest_version == versions_to_check[Len(versions_to_check)]
    IN  IF matched_version # NoString
        THEN <<VersionLine("CURRENT_DEPLOYMENT", matched_version)>>
             \o (IF matched_version # latest_version
                 THEN <<[tag |-> "UPGRADE_NOTE", from |-> matched_version,
                         to |-> latest_version]>>
                 ELSE <<VersionLine("ALREADY_LATEST", latest_version)>>)
        ELSE IF cs.is_empty
        THEN <<Line("NO_OUTLINE_DATA")>>
        ELSE <<[tag |-> "UNKNOWN_VERSION", terms |-> cs.term_count]>>

\* documents a reference file may hold
jIntro == [number |-> <<"1">>, title |-> tIntro]
jBrokerSec == [number |-> <<"2">>, title |-> tBrokerInfo, kind |-> "SECTION",
               section |-> [terms |-> <<[title |-> tBrokerName], [title |-> tLine29]>>]]
docEmpty == <<>>
docA == [terms |-> <<jIntro>>]
docB == [terms |-> <<jIntro, jBrokerSec>>]
docUnknownField == [terms |-> <<jIntro>>, sections |-> <<>>]

BadFiles == {FileMissing, FileUnreadable, FileNotJson, FileJson(docUnknownField)}
GoodFiles == {FileJson(docEmpty), FileJson(docA), FileJson(docB)}
CheckedPaths == {OutlinePath(versions_to_check[k]) : k \in 1..Len(versions_to_check)}

DbOutlines == {EmptyOutline, Outline(<<fIntro>>), Outline(<<fIntro, fBrokerSec>>),
               Outline(<<fBrokerSec>>)}
SeriesArgs == {NoString, "830"}
FormArgs == {NoString, "f77"}
LoaderVersions == {"0", "1", "2", "4", "9"}

InitInspect ==
    /\ disk \in [CheckedPaths -> BadFiles \cup GoodFiles]
    /\ db_outline \in DbOutlines
    /\ pc = "idle"
    /\ args = NoArgs
    /\ calls = <<>>
    /\ opened = <<>>
    /\ log = <<>>
    /\ loaded = NotCalled
    /\ current_summary = NotCalled
    /\ vidx = 0
    /\ comparison_results = <<>>
    /\ out = <<>>
    /\ current = EmptyOutline
    /\ version_outline = EmptyOutline
    /\ cmp_result = NotCalled
    /\ outline = None
    /\ summary = NotCalled
    /\ rows = <<>>
    /\ all_forms = <<>>
    /\ fidx = 0
    /\ forms_with_outline = <<>>
    /\ forms_without_outline = <<>>
    /\ UuidIdle

\* the loader called on its own
LoadVersion ==
    /\ pc = "idle"
    /\ loaded = NotCalled
    /\ \E version \in LoaderVersions :
           LET r == _load_outline_version(version, disk)
           IN  /\ loaded' = [version |-> version, value |-> r.value, raised |-> r.raised]
               /\ opened' = opened \o r.opened
               /\ log' = log \o r.errors
    /\ UNCHANGED <<cmpVars, sumVars, uuidVars, scanVars, envVars, mainVars>>

\* lines 95-113
MainStart ==
    /\ pc = "idle"
    /\ loaded = NotCalled
    /\ \E sid \in SeriesArgs, fid \in FormArgs :
           args' = [form_series_id |-> IF sid # NoString THEN sid ELSE RPA_FORM_SERIES_ID,
                    form_id |-> fid]
    /\ out' = out \o <<Line("BANNER")>>
    /\ pc' = "series"
    /\ UNCHANGED <<cmpVars, sumVars, uuidVars, scanVars, envVars, loadVars,
                   calls, current_summary, vidx, comparison_results>>

Lookup(service, id) == [service |-> service, id |-> id]
DefaultFormId == "f1"
FillConfigId == "fc1"

\* lines 115-122
GetFormSeries ==
    /\ pc = "series"
    /\ calls' = Append(calls, Lookup("FormSeriesService", args.form_series_id))
    /\ \E found \in BOOLEAN :
           IF found
           THEN /\ out' = Append(out, [tag |-> "FORM_SERIES", id |-> args.form_series_id])
                /\ pc' = "form"
           ELSE /\ out' = Append(out, [tag |-> "ERROR_FORM_SERIES", id |-> args.form_series_id])
                /\ pc' = "done"
    /\ UNCHANGED <<cmpVars, sumVars, uuidVars, scanVars, envVars, loadVars,
                   args, current_summary, vidx, comparison_results>>

\* lines 124-132
GetForm ==
    /\ pc = "form"
    /\ LET form_id == IF args.form_id # NoString THEN args.form_id ELSE DefaultFormId
       IN  /\ args' = [args EXCEPT !.form_id = form_id]
           /\ calls' = Append(calls, Lookup("FormService", form_id))
           /\ \E found \in BOOLEAN :
                  IF found
                  THEN /\ out' = Append(out, [tag |-> "FORM", id |-> form_id])
                       /\ pc' = "fill_config"
                  ELSE /\ out' = Append(out, [tag |-> "ERROR_FORM", id |-> form_id])
                       /\ pc' = "done"
    /\ UNCHANGED <<cmpVars, sumVars, uuidVars, scanVars, envVars, loadVars,
                   current_summary, vidx, comparison_results>>

\* plausible slip: the `return` of line 139 missing
GetFillConfigNoReturn ==
    /\ pc = "fill_config"
    /\ calls' = Append(calls, Lookup("FillConfigService", FillConfigId))
    /\ \E found \in BOOLEAN :
           IF found
           THEN /\ out' = out
                /\ pc' = "analyze"
           ELSE /\ out' = Append(out, [tag |-> "ERROR_FILL_CONFIG", id |-> FillConfigId])
                /\ pc' = "analyze"
    /\ UNCHANGED <<cmpVars, sumVars, uuidVars, scanVars, envVars, loadVars,
                   args, current_summary, vidx, comparison_results>>

\* lines 134-139
GetFillConfig ==
    /\ pc = "fill_config"
    /\ calls' = Append(calls, Lookup("FillConfigService", FillConfigId))
    /\ \E found \in BOOLEAN :
           IF found
           THEN /\ out' = out
                /\ pc' = "analyze"
           ELSE /\ out' = Append(out, [tag |-> "ERROR_FILL_CONFIG", id |-> FillConfigId])
                /\ pc' = "done"
    /\ UNCHANGED <<cmpVars, sumVars, uuidVars, scanVars, envVars, loadVars,
                   args, current_summary, vidx, comparison_results>>

\* lines 141-172
Analyze ==
    /\ pc = "analyze"
    /\ LET cs == _get_outline_summary(db_outline)
       IN  /\ current_summary' = cs
           /\ out' = out \o <<IF cs.is_empty THEN Line("WARNING_NO_OUTLINE")
                              ELSE [tag |-> "OUTLINE_EXISTS", terms |-> cs.term_count]>>
    /\ vidx' = 1
    /\ comparison_results' = <<>>
    /\ pc' = "versions"
    /\ UNCHANGED <<cmpVars, sumVars, uuidVars, scanVars, envVars, loadVars, args, calls>>

\* lines 174-178: one pass of the loop; an exception leaving the loader
\* would reach the handler of lines 223-226
CheckVersion ==
    /\ pc = "versions"
    /\ vidx <= Len(versions_to_check)
    /\ LET version == versions_to_check[vidx]
           r == _load_outline_version(version, disk)
       IN  /\ opened' = opened \o r.opened
           /\ log' = log \o r.errors
           /\ IF r.raised
              THEN /\ out' = Append(out, Line("ERROR_DURING_INSPECTION"))
                   /\ pc' = "done"
                   /\ UNCHANGED <<vidx, comparison_results>>
              ELSE /\ comparison_results' =
                         IF r.value # None
                         THEN Append(comparison_results,
                                     _compare_outlines(db_outline, version, r.value))
                         ELSE comparison_results
                   /\ vidx' = vidx + 1
                   /\ pc' = IF vidx = Len(versions_to_check) THEN "report" ELSE "versions"
                   /\ out' = out
    /\ UNCHANGED <<cmpVars, sumVars, uuidVars, scanVars, envVars, loaded, args, calls, current_summary>>

\* lines 180-226
Report ==
    /\ pc = "report"
    /\ out' = out \o DisplayResults(comparison_results)
                  \o <<Line("SUMMARY")>>
                  \o SummaryLines(comparison_results, current_summary)
    /\ pc' = "done"
    /\ UNCHANGED <<cmpVars, sumVars, uuidVars, scanVars, envVars, loadVars,
                   args, calls, current_summary, vidx, comparison_results>>

NextInspect ==
    \/ LoadVersion
    \/ MainStart
    \/ GetFormSeries
    \/ GetForm
    \/ GetFillConfig
    \/ Analyze
    \/ CheckVersion
    \/ Report

SpecInspect == InitInspect /\ [][NextInspect]_vars

IsBad(version) ==
    OutlinePath(version) \notin DOMAIN disk \/ disk[OutlinePath(version)] \in BadFiles
Logged(version) == \E k \in 1..Len(log) : log[k].level = "error" /\ log[k].version = version
Compared(version) ==
    \E k \in 1..Len(comparison_results) : comparison_results[k].version = version

\* C7: loading version '0' returns an empty outline and opens no file,
\* whatever the reference documents on disk are.
C7_VersionZeroIsEmptyNoFileAccess ==
    (loaded # NotCalled /\ loaded.version = "0") =>
        /\ loaded.value = EmptyOutline
        /\ Len(loaded.value.terms) = 0
        /\ opened = <<>>
        /\ log = <<>>

C7_Witness ==
    /\ loaded # NotCalled
    /\ loaded.version = "0"
    /\ loaded.value = EmptyOutline
    /\ \E p \in DOMAIN disk : disk[p] \in GoodFiles
    /\ \E p \in DOMAIN disk : disk[p] \in BadFiles

\* C8: for a version other than '0' whose document is missing, unreadable or
\* malformed the loader returns None and logs the failure, no exception
\* leaves it, and main leaves that version out of the comparison and goes on
\* to the remaining versions and the summary.
C8_BadDocumentIsAbsentNotFatal ==
    /\ (loaded # NotCalled /\ loaded.version # "0" /\ IsBad(loaded.version)) =>
           /\ loaded.value = None
           /\ ~loaded.raised
           /\ Logged(loaded.version)
    /\ \A k \in 1..Len(versions_to_check) :
           (pc \in {"versions", "report", "done"} /\ k < vidx
                /\ IsBad(versions_to_check[k])) =>
               /\ Logged(versions_to_check[k])
               /\ ~Compared(versions_to_check[k])
               /\ \A n \in 1..Len(out) : out[n].tag # "ERROR_DURING_INSPECTION"
    /\ (pc = "done" /\ current_summary # NotCalled) =>
           /\ Len(opened) = Len(versions_to_check)
           /\ \E n \in 1..Len(out) : out[n].tag = "SUMMARY"
           /\ \A k \in 1..Len(versions_to_check) :
                  Compared(versions_to_check[k]) <=> ~IsBad(versions_to_check[k])

C8_Witness ==
    /\ pc = "done"
    /\ current_summary # NotCalled
    /\ disk[OutlinePath("1")] = FileNotJson
    /\ disk[OutlinePath("2")] = FileMissing
    /\ disk[OutlinePath("3")] = FileJson(docUnknownField)
    /\ disk[OutlinePath("4")] = FileJson(docB)
    /\ Len(comparison_results) = 1
    /\ Len(log) = 3

\* the loader called on its own for a version that has no document
C8_WitnessDirect ==
    /\ loaded # NotCalled
    /\ loaded.version = "9"
    /\ loaded.value = None
    /\ Logged("9")

(***************************************************************************)
(* find_rpa_forms_with_outline.main                                        *)
(***************************************************************************)
ScanSampleLimit == 3

\* line 82: has_outline = outline and outline.terms and len(outline.terms) > 0
\* plausible slip: presence of the outline tested instead of its terms
HasOutlinePresent(o) == o # None

HasOutline(o) == o # None /\ Len(o.terms) > 0 /\ Len(o.terms) > 0

\* lines 97-101: titles of the titled terms among the first three
ScanSampleTitles(o) ==
    LET first == Take(o.terms, ScanSampleLimit)
        RECURSIVE Go(_)
        Go(k) == IF k > Len(first) THEN <<>>
                 ELSE (IF first[k].title # <<>> THEN <<first[k].title>> ELSE <<>>)
                      \o Go(k + 1)
    IN  Go(1)

\* lines 84-101: the dict built for a form whose lookups succeeded
FormInfo(row, default_form_id) ==
    LET base == [form_id |-> row.id,
                 fill_config_id |-> row.fill_config_id,
                 created_at |-> row.created_at,
                 is_default |-> (row.id = default_form_id),
                 term_count |-> IF HasOutline(row.outline)
                                THEN Len(row.outline.terms) ELSE 0,
                 state |-> row.state]
    IN  IF HasOutline(row.outline)
        THEN base @@ [sample_terms |-> ScanSampleTitles(row.outline)]
        ELSE base

\* the rows of the query, newest first, and what the lookups of each will do
FormIdAt(k) == 500 + 10 * ((3 * k) % 7) + k
ScanDefaultFormId == FormIdAt(2)

ScanError(form_id) == [level |-> "error", what |-> "processing form", form_id |-> form_id]

\* lines 36-44
ScanStart ==
    /\ pc = "idle"
    /\ \E sid \in {NoString, "830"} :
           args' = [form_series_id |-> IF sid # NoString THEN sid ELSE RPA_FORM_SERIES_ID,
                    form_id |-> NoString]
    /\ out' = out \o <<Line("BANNER")>>
    /\ pc' = "scan_series"
    /\ UNCHANGED <<cmpVars, sumVars, uuidVars, envVars, loadVars, scanVars,
                   calls, current_summary, vidx, comparison_results>>

ScanGetFormSeries ==
    /\ pc = "scan_series"
    /\ calls' = Append(calls, Lookup("FormSeriesService", args.form_series_id))
    /\ \E found \in BOOLEAN :
           IF found
           THEN /\ out' = Append(out, [tag |-> "FORM_SERIES", id |-> args.form_series_id])
                /\ pc' = "scan_query"
           ELSE /\ out' = Append(out, [tag |-> "ERROR_FORM_SERIES", id |-> args.form_series_id])
                /\ pc' = "done"
    /\ UNCHANGED <<cmpVars, sumVars, uuidVars, envVars, loadVars, scanVars,
                   args, current_summary, vidx, comparison_results>>

\* lines 46-71
ScanQuery ==
    /\ pc = "scan_query"
    /\ calls' = Append(calls, Lookup("documents_forms", args.form_series_id))
    /\ \E answered \in BOOLEAN :
           IF answered
           THEN /\ all_forms' = rows
                /\ out' = Append(out, [tag |-> "FOUND_FORMS", count |-> Len(rows)])
                /\ fidx' = 1
                /\ pc' = IF Len(rows) = 0 THEN "scan_display" ELSE "scan_forms"
           ELSE /\ out' = Append(out, Line("ERROR_QUERYING_FORMS"))
                /\ pc' = "done"
                /\ UNCHANGED <<all_forms, fidx>>
    /\ forms_with_outline' = <<>>
    /\ forms_without_outline' = <<>>
    /\ UNCHANGED <<cmpVars, sumVars, uuidVars, envVars, loadVars, rows,
                   args, current_summary, vidx, comparison_results>>

\* the lookups one pass of the loop makes before it succeeds or raises
ScanLookups(row) ==
    <<Lookup("FormService", row.id)>>
    \o (IF row.failure = "FormService" THEN <<>>
        ELSE <<Lookup("FillConfigService", row.fill_config_id)>>)

\* plausible slip: the try statement around the loop instead of inside it
ScanFormAbortOnError ==
    /\ pc = "scan_forms"
    /\ fidx <= Len(all_forms)
    /\ LET form_row == all_forms[fidx]
       IN  /\ calls' = calls \o ScanLookups(form_row)
           /\ IF form_row.failure # "none"
              THEN /\ log' = Append(log, ScanError(form_row.id))
                   /\ pc' = "scan_display"
                   /\ UNCHANGED <<forms_with_outline, forms_without_outline, fidx>>
              ELSE /\ log' = log
                   /\ fidx' = fidx + 1
                   /\ pc' = IF fidx = Len(all_forms) THEN "scan_display" ELSE "scan_forms"
                   /\ IF HasOutline(form_row.outline)
                      THEN /\ forms_with_outline' =
                                 Append(forms_with_outline, FormInfo(form_row, ScanDefaultFormId))
                           /\ UNCHANGED forms_without_outline
                      ELSE /\ forms_without_outline' =
                                 Append(forms_without_outline, FormInfo(form_row, ScanDefaultFormId))
                           /\ UNCHANGED forms_with_outline
    /\ UNCHANGED <<cmpVars, sumVars, uuidVars, envVars, opened, loaded, rows, all_forms,
                   args, current_summary, vidx, comparison_results, out>>

\* lines 73-107: one pass of the loop
ScanForm ==
    /\ pc = "scan_forms"
    /\ fidx <= Len(all_forms)
    /\ LET form_row == all_forms[fidx]
       IN  /\ calls' = calls \o ScanLookups(form_row)
           /\ IF form_row.failure # "none"
              THEN /\ log' = Append(log, ScanError(form_row.id))
                   /\ UNCHANGED <<forms_with_outline, forms_without_outline>>
              ELSE /\ log' = log
                   /\ IF HasOutline(form_row.outline)
                      THEN /\ forms_with_outline' =
                                 Append(forms_with_outline, FormInfo(form_row, ScanDefaultFormId))
                           /\ UNCHANGED forms_without_outline
                      ELSE /\ forms_without_outline' =
                                 Append(forms_without_outline, FormInfo(form_row, ScanDefaultFormId))
                           /\ UNCHANGED forms_with_outline
    /\ fidx' = fidx + 1
    /\ pc' = IF fidx = Len(all_forms) THEN "scan_display" ELSE "scan_forms"
    /\ UNCHANGED <<cmpVars, sumVars, uuidVars, envVars, opened, loaded, rows, all_forms,
                   args, current_summary, vidx, comparison_results, out>>

\* lines 109-158
ScanDisplay ==
    /\ pc = "scan_display"
    /\ out' = out
          \o (IF Len(forms_with_outline) > 0
              THEN <<[tag |-> "FORMS_WITH_OUTLINE", forms |-> forms_with_outline]>>
              ELSE <<Line("NO_FORMS_WITH_OUTLINE")>>)
          \o (IF Len(forms_without_outline) > 0
              THEN <<[tag |-> "FORMS_WITHOUT_OUTLINE",
                      count |-> Len(forms_without_outline),
                      forms |-> Take(forms_without_outline, 5)]>>
              ELSE <<>>)
          \o <<[tag |-> "SUMMARY", total |-> Len(all_forms),
                with |-> Len(forms_with_outline),
                without |-> Len(forms_without_outline)]>>
    /\ pc' = "done"
    /\ UNCHANGED <<cmpVars, sumVars, uuidVars, envVars, loadVars, scanVars,
                   args, calls, current_summary, vidx, comparison_results>>

\* what the query and the lookups of each row will do
ScanOutlines == {None, EmptyOutline, Outline(<<fIntro>>),
                 Outline(<<fUntitled, fIntro, fBrokerSec, fIntro>>)}
RowBehaviours ==
    {[failure |-> f, outline |-> EmptyOutline] :
        f \in {"FormService", "FillConfigService", "form_outline"}}
    \cup {[failure |-> "none", outline |-> o] : o \in ScanOutlines}
RowAt(k, b) ==
    [id |-> FormIdAt(k), fill_config_id |-> 900 + k, created_at |-> 100 - k,
     state |-> "ACTIVE", failure |-> b.failure, outline |-> b.outline]
RowLists ==
    UNION { {[k \in 1..n |-> RowAt(k, bs[k])] : bs \in [1..n -> RowBehaviours]} :
            n \in 0..MaxForms }

InitScan ==
    /\ rows \in RowLists
    /\ all_forms = <<>>
    /\ fidx = 0
    /\ forms_with_outline = <<>>
    /\ forms_without_outline = <<>>
    /\ UuidIdle
    /\ disk = [p \in {} |-> None]
    /\ db_outline = EmptyOutline
    /\ pc = "idle"
    /\ args = NoArgs
    /\ calls = <<>>
    /\ opened = <<>>
    /\ log = <<>>
    /\ loaded = NotCalled
    /\ current_summary = NotCalled
    /\ vidx = 0
    /\ comparison_results = <<>>
    /\ out = <<>>
    /\ current = EmptyOutline
    /\ version_outline = EmptyOutline
    /\ cmp_result = NotCalled
    /\ outline = None
    /\ summary = NotCalled

NextScan ==
    \/ ScanStart
    \/ ScanGetFormSeries
    \/ ScanQuery
    \/ ScanForm
    \/ ScanDisplay

SpecScan == InitScan /\ [][NextScan]_vars

IdsOf(infos) == {infos[k].form_id : k \in 1..Len(infos)}
Processed == IF pc \in {"scan_forms", "scan_display"} \/ (pc = "done" /\ fidx > 0)
             THEN 1..(fidx - 1) ELSE {}
ScanLogged(form_id) ==
    \E k \in 1..Len(log) : log[k].level = "error" /\ log[k].form_id = form_id
Occurrences(infos, form_id) == Cardinality({k \in 1..Len(infos) : infos[k].form_id = form_id})

\* C9: a form whose processing raises is in neither partition and has an
\* error logged; every other form is still processed and is in exactly one
\* partition; the loop reaches the last form whatever failed before it.
C9_FailingFormsSkippedOthersKept ==
    /\ \A k \in Processed :
           LET row == all_forms[k]
           IN  IF row.failure # "none"
               THEN /\ row.id \notin IdsOf(forms_with_outline)
                    /\ row.id \notin IdsOf(forms_without_outline)
                    /\ ScanLogged(row.id)
               ELSE /\ Occurrences(forms_with_outline, row.id)
                          + Occurrences(forms_without_outline, row.id) = 1
                    /\ ~ScanLogged(row.id)
    /\ pc \in {"scan_display"} => fidx = Len(all_forms) + 1
    /\ IdsOf(forms_with_outline) \cup IdsOf(forms_without_outline)
           \subseteq {all_forms[k].id : k \in Processed}

\* three forms, the second raises: the partitions hold exactly forms 1 and 3
C9_Witness ==
    /\ pc = "done"
    /\ Len(all_forms) = 3
    /\ all_forms[1].failure = "none"
    /\ all_forms[2].failure = "FillConfigService"
    /\ all_forms[3].failure = "none"
    /\ IdsOf(forms_with_outline) \cup IdsOf(forms_without_outline)
           = {all_forms[1].id, all_forms[3].id}
    /\ ScanLogged(all_forms[2].id)

PosOf(form_id) == CHOOSE k \in 1..Len(all_forms) : all_forms[k].id = form_id
InQueryOrder(infos) ==
    \A a, b \in 1..Len(infos) : a < b => PosOf(infos[a].form_id) < PosOf(infos[b].form_id)
TopTerms(o) == IF o = None THEN <<>> ELSE o.terms

\* C10: a processed form is in the with-outline partition exactly when its
\* outline has a non-empty top-level term list, otherwise in the other one;
\* term_count is that list's length; at most 3 sample titles are kept; each
\* partition lists its forms in the order of the query.
C10_PartitionByTopLevelTerms ==
    /\ \A k \in Processed :
           LET row == all_forms[k]
           IN  row.failure = "none" =>
                   /\ (row.id \in IdsOf(forms_with_outline))
                          <=> (Len(TopTerms(row.outline)) > 0)
                   /\ (row.id \in IdsOf(forms_without_outline))
                          <=> (Len(TopTerms(row.outline)) = 0)
    /\ \A n \in 1..Len(forms_with_outline) :
           LET info == forms_with_outline[n]
           IN  /\ info.term_count = Len(TopTerms(all_forms[PosOf(info.form_id)].outline))
               /\ Len(info.sample_terms) <= 3
               /\ \A t \in 1..Len(info.sample_terms) : info.sample_terms[t] # <<>>
    /\ \A n \in 1..Len(forms_without_outline) :
           /\ forms_without_outline[n].term_count = 0
           /\ Len(TopTerms(all_forms[PosOf(forms_without_outline[n].form_id)].outline)) = 0
    /\ InQueryOrder(forms_with_outline)
    /\ InQueryOrder(forms_without_outline)

C10_Witness ==
    /\ pc = "done"
    /\ Len(forms_with_outline) = 2
    /\ Len(forms_without_outline) = 1
    /\ forms_with_outline[2].term_count = 4
    /\ Len(forms_with_outline[2].sample_terms) = 2
    /\ all_forms[2].outline = None

(***************************************************************************)
(* check_form_outline_by_uuid.main                                         *)
(***************************************************************************)
\* what an external call does: it returns, or raises services.NotFoundError,
\* or raises another Exception
CallOutcomes == {"ok", "NotFoundError", "Exception"}

\* pb_to_dict_client on a term: populated fields only, by their JSON names
RECURSIVE TermToDict(_)
TermsToDict(ts) ==
    IF Len(ts) = 0 THEN <<>>
    ELSE [terms |-> [i \in 1..Len(ts) |-> TermToDict(ts[i])]]
TermToDict(t) ==
       (IF t.number # <<>> THEN [number |-> t.number] ELSE <<>>)
    @@ (IF t.title # <<>> THEN [title |-> t.title] ELSE <<>>)
    @@ (IF t.kind # 0 THEN [kind |-> KindName(t.kind)] ELSE <<>>)
    @@ (IF Len(t.section) > 0 THEN [section |-> TermsToDict(t.section)] ELSE <<>>)
    @@ (IF Len(t.combo) > 0 THEN [combo |-> TermsToDict(t.combo)] ELSE <<>>)
    @@ (IF Len(t.fieldIds) > 0 THEN [fieldIds |-> t.fieldIds] ELSE <<>>)

\* pb_to_dict_client(form.fill_config); `omit` is the serializer dropping the
\* outline it takes for default-valued
pb_to_dict_client(fill_config, omit) ==
    [id |-> fill_config.id]
    @@ (IF fill_config.has_form_outline /\ ~omit
        THEN [formOutline |-> TermsToDict(fill_config.form_outline.terms)]
        ELSE <<>>)

\* line 95
DictTermCount(d) ==
    IF "formOutline" \in DOMAIN d
    THEN Len(JsonGet(d.formOutline, "terms", <<>>))
    ELSE 0

\* lines 110-123: one line per term among the first ten
SectionLine(term) ==
    [tag |-> "TERM",
     number |-> JsonGet(term, "number", <<>>),
     title |-> JsonGet(term, "title", <<"U", "n", "t", "i", "t", "l", "e", "d">>),
     kind |-> JsonGet(term, "kind", "UNKNOWN"),
     nested |-> IF "section" \in DOMAIN term /\ "terms" \in DOMAIN term.section
                THEN Len(term.section.terms)
                ELSE IF "combo" \in DOMAIN term /\ "terms" \in DOMAIN term.combo
                THEN Len(term.combo.terms)
                ELSE 0]

\* lines 89-202
AnalysisLines(d, fill_config) ==
    LET has_outline_in_dict == "formOutline" \in DOMAIN d
        outline_data == IF has_outline_in_dict THEN d.formOutline ELSE <<>>
        dict_term_count == DictTermCount(d)
        terms == JsonGet(outline_data, "terms", <<>>)
        term_count == IF fill_config.has_form_outline
                      THEN Len(fill_config.form_outline.terms) ELSE 0
        shown == Take(terms, 10)
    IN  <<[tag |-> "FORM_OUTLINE_IN_RESPONSE", present |-> has_outline_in_dict]>>
        \o (IF has_outline_in_dict
            THEN <<[tag |-> "HAS_OUTLINE_DATA", terms |-> dict_term_count]>>
                 \o (IF dict_term_count > 0
                     THEN <<[tag |-> "SUCCESS_OUTLINE_PRESENT", terms |-> dict_term_count]>>
                          \o [k \in 1..Len(shown) |-> SectionLine(shown[k])]
                          \o (IF dict_term_count > 10
                              THEN <<[tag |-> "MORE_TERMS", more |-> dict_term_count - 10]>>
                              ELSE <<>>)
                          \o (IF "fieldIds" \in DOMAIN terms[1]
                              THEN <<[tag |-> "SAMPLE_FIELD_IDS",
                                      ids |-> Take(terms[1].fieldIds, 3)]>>
                              ELSE <<>>)
                          \o <<Line("NEXT_STEPS")>>
                     ELSE <<Line("ISSUE_OUTLINE_EMPTY")>>)
            ELSE <<Line("ISSUE_OUTLINE_NOT_IN_RESPONSE")>>
                 \o (IF fill_config.has_form_outline /\ term_count > 0
                     THEN <<[tag |-> "CRITICAL_IN_PROTOBUF_NOT_IN_JSON", terms |-> term_count]>>
                     ELSE <<Line("OUTLINE_NOT_CONFIGURED")>>))
        \o <<[tag |-> "TOP_LEVEL_FIELDS", fields |-> DOMAIN d]>>
        \o (IF dict_term_count > 0
            THEN <<[tag |-> "OUTLINE_JSON", data |-> outline_data]>>
            ELSE <<>>)

\* lines 204-216: the handler an exception raised inside the try reaches
HandlerLines(class, uuid) ==
    IF class = "NotFoundError"
    THEN <<[tag |-> "ERROR_FORM_NOT_FOUND", uuid |-> uuid], Line("PLEASE_CHECK")>>
    ELSE <<[tag |-> "ERROR", class |-> class], Line("TRACEBACK")>>

\* the forms, resolvers and serializers main may meet
UuidFillConfigs ==
    {[id |-> FillConfigId, has_form_outline |-> FALSE, form_outline |-> EmptyOutline]}
    \cup {[id |-> FillConfigId, has_form_outline |-> TRUE, form_outline |-> o] :
            o \in {EmptyOutline, Outline(<<fIntro>>), Outline(<<kFieldOther3, fBrokerSec>>)}}
UuidEnvs ==
    [get_by_uuid : CallOutcomes,
     resolve : CallOutcomes,
     attaches : BOOLEAN,
     fill_config : UuidFillConfigs,
     pb_to_dict : CallOutcomes,
     omits : BOOLEAN]

InitUuid ==
    /\ uuid_env \in UuidEnvs
    /\ form_uuid = "abc123-def456-ghi789"
    /\ result_dict = NotCalled
    /\ escaped = NoString
    /\ rows = <<>>
    /\ all_forms = <<>>
    /\ fidx = 0
    /\ forms_with_outline = <<>>
    /\ forms_without_outline = <<>>
    /\ disk = [p \in {} |-> None]
    /\ db_outline = EmptyOutline
    /\ pc = "idle"
    /\ args = NoArgs
    /\ calls = <<>>
    /\ opened = <<>>
    /\ log = <<>>
    /\ loaded = NotCalled
    /\ current_summary = NotCalled
    /\ vidx = 0
    /\ comparison_results = <<>>
    /\ out = <<>>
    /\ current = EmptyOutline
    /\ version_outline = EmptyOutline
    /\ cmp_result = NotCalled
    /\ outline = None
    /\ summary = NotCalled

UuidFrame == UNCHANGED <<cmpVars, sumVars, scanVars, envVars, loadVars,
                         args, current_summary, vidx, comparison_results,
                         uuid_env, form_uuid, escaped>>

\* lines 42-44
UuidStart ==
    /\ pc = "idle"
    /\ out' = out \o <<Line("BANNER")>>
    /\ pc' = "uuid_lookup"
    /\ UNCHANGED <<calls, result_dict>>
    /\ UuidFrame

\* lines 47-59
UuidGetForm ==
    /\ pc = "uuid_lookup"
    /\ calls' = Append(calls, Lookup("FormService.get_by_uuid", form_uuid))
    /\ IF uuid_env.get_by_uuid = "ok"
       THEN /\ out' = out \o <<[tag |-> "STEP", step |-> 1],
                               [tag |-> "FORM_FOUND", uuid |-> form_uuid]>>
            /\ pc' = "uuid_resolve"
       ELSE /\ out' = out \o <<[tag |-> "STEP", step |-> 1]>>
                          \o HandlerLines(uuid_env.get_by_uuid, form_uuid)
            /\ pc' = "done"
    /\ UNCHANGED result_dict
    /\ UuidFrame

\* lines 61-81
UuidResolve ==
    /\ pc = "uuid_resolve"
    /\ calls' = Append(calls, Lookup("resolver.resolve", "fill_config"))
    /\ IF uuid_env.resolve # "ok"
       THEN /\ out' = out \o <<[tag |-> "STEP", step |-> 2]>>
                          \o HandlerLines(uuid_env.resolve, form_uuid)
            /\ pc' = "done"
       ELSE IF ~uuid_env.attaches
       THEN /\ out' = out \o <<[tag |-> "STEP", step |-> 2], Line("ERROR_NO_FILL_CONFIG")>>
            /\ pc' = "done"
       ELSE /\ out' = out \o <<[tag |-> "STEP", step |-> 2],
                               [tag |-> "FILL_CONFIG_RESOLVED",
                                has_outline_field |-> uuid_env.fill_config.has_form_outline]>>
            /\ pc' = "uuid_serialize"
    /\ UNCHANGED result_dict
    /\ UuidFrame

\* lines 83-87
UuidSerialize ==
    /\ pc = "uuid_serialize"
    /\ calls' = Append(calls, Lookup("pb_to_dict_client", "fill_config"))
    /\ IF uuid_env.pb_to_dict = "ok"
       THEN /\ result_dict' = pb_to_dict_client(uuid_env.fill_config, uuid_env.omits)
            /\ out' = out \o <<[tag |-> "STEP", step |-> 3]>>
            /\ pc' = "uuid_analyze"
       ELSE /\ out' = out \o <<[tag |-> "STEP", step |-> 3]>>
                          \o HandlerLines(uuid_env.pb_to_dict, form_uuid)
            /\ pc' = "done"
            /\ UNCHANGED result_dict
    /\ UuidFrame

\* lines 89-202
UuidAnalyze ==
    /\ pc = "uuid_analyze"
    /\ out' = out \o <<[tag |-> "STEP", step |-> 4]>>
                  \o AnalysisLines(result_dict, uuid_env.fill_config)
    /\ pc' = "done"
    /\ UNCHANGED <<calls, result_dict>>
    /\ UuidFrame

NextUuid ==
    \/ UuidStart
    \/ UuidGetForm
    \/ UuidResolve
    \/ UuidSerialize
    \/ UuidAnalyze

SpecUuid == InitUuid /\ [][NextUuid]_vars

HasLine(tag) == \E n \in 1..Len(out) : out[n].tag = tag
UuidResolves == uuid_env.get_by_uuid = "ok"
NoFillConfig == UuidResolves /\ uuid_env.resolve = "ok" /\ ~uuid_env.attaches
\* a call that was reached failed, and not by the UUID being unknown
OtherFailure ==
    \/ uuid_env.get_by_uuid = "Exception"
    \/ UuidResolves /\ uuid_env.resolve # "ok"
    \/ UuidResolves /\ uuid_env.resolve = "ok" /\ uuid_env.attaches
           /\ uuid_env.pb_to_dict # "ok"

\* C11: an unknown UUID ends in the not-found report, a form without
\* fill_config in the 'no fill_config' report before any serialization or
\* analysis, any other failure in the raw error with its traceback; the three
\* reports exclude one another and no exception leaves main.
C11_ErrorKindsHaveDistinctReports ==
    pc = "done" =>
        /\ escaped = NoString
        /\ uuid_env.get_by_uuid = "NotFoundError" =>
               HasLine("ERROR_FORM_NOT_FOUND") /\ ~HasLine("TRACEBACK")
        /\ NoFillConfig =>
               /\ HasLine("ERROR_NO_FILL_CONFIG")
               /\ ~HasLine("ERROR_FORM_NOT_FOUND") /\ ~HasLine("TRACEBACK")
               /\ result_dict = NotCalled
               /\ ~HasLine("FORM_OUTLINE_IN_RESPONSE")
        /\ OtherFailure =>
               /\ HasLine("ERROR") /\ HasLine("TRACEBACK")
               /\ ~HasLine("ERROR_FORM_NOT_FOUND")

(***************************************************************************)
(* The two tasks that walk a form series, side by side                     *)
(***************************************************************************)
InitLookups == InitInspect \/ InitScan
InspectMain ==
    \/ MainStart
    \/ GetFormSeries
    \/ GetForm
    \/ GetFillConfig
    \/ Analyze
    \/ CheckVersion
    \/ Report
NextLookups == InspectMain \/ NextScan
SpecLookups == InitLookups /\ [][NextLookups]_vars

LookupFailures == {"ERROR_FORM_SERIES", "ERROR_FORM", "ERROR_FILL_CONFIG",
                   "ERROR_QUERYING_FORMS"}
LastLine == out[Len(out)]
\* how many lookups have been made when the lookup behind a report fails
CallsAtFailure(tag) == CASE tag = "ERROR_FORM_SERIES" -> 1
                         [] tag = "ERROR_FORM" -> 2
                         [] tag = "ERROR_QUERYING_FORMS" -> 2
                         [] tag = "ERROR_FILL_CONFIG" -> 3

\* C12: the lookups go form series, then form or forms query, then fill
\* config; no lookup is made twice for one entity; and once a lookup outside
\* the per-form loop has failed its error is the last thing reported: no
\* further lookup, document load, comparison, summary or partition follows.
C12_LookupsOrderedOnceAndFatal ==
    /\ \A k \in 1..Len(calls) :
           /\ (k = 1) <=> (calls[k].service = "FormSeriesService")
           /\ (k = 2) => calls[k].service \in {"FormService", "documents_forms"}
           /\ calls[k].service = "documents_forms" => k = 2
           /\ calls[k].service = "FillConfigService" =>
                  k >= 3 /\ calls[k - 1].service = "FormService"
    /\ \A i, j \in 1..Len(calls) :
           (i # j /\ calls[i].service = calls[j].service) => calls[i].id # calls[j].id
    /\ \A n \in 1..Len(out) :
           out[n].tag \in LookupFailures =>
               /\ n = Len(out)
               /\ pc = "done"
               /\ Len(calls) = CallsAtFailure(out[n].tag)
               /\ opened = <<>>
               /\ log = <<>>
               /\ current_summary = NotCalled
               /\ comparison_results = <<>>
               /\ forms_with_outline = <<>> /\ forms_without_outline = <<>>
               /\ fidx = 0 /\ vidx = 0

C12_Witness ==
    /\ pc = "done"
    /\ Len(out) > 0
    /\ LastLine.tag = "ERROR_FILL_CONFIG"
    /\ Len(calls) = 3
    /\ \E p \in DOMAIN disk : disk[p] \in GoodFiles

\* the scan: both lookups of every form made in query order, each once
C12_WitnessScan ==
    /\ pc = "done"
    /\ Len(all_forms) = MaxForms
    /\ Len(calls) = 2 + 2 * MaxForms

(***************************************************************************)
(* Properties of the comparator's result and of main's summary             *)
(***************************************************************************)
\* C13: matches is true exactly when status is MATCH; a NO_MATCH result
\* carries the top-level term counts of the current and of the reference
\* outline, a MATCH result carries neither; the two outlines are left as
\* they were.
C13_ResultShape ==
    /\ [](cmp_result # NotCalled =>
            /\ cmp_result.status \in {"MATCH", "NO_MATCH"}
            /\ cmp_result.matches <=> (cmp_result.status = "MATCH")
            /\ cmp_result.status = "NO_MATCH" =>
                   /\ DOMAIN cmp_result = {"version", "matches", "status",
                                           "current_term_count", "version_term_count"}
                   /\ cmp_result.current_term_count = Len(current.terms)
                   /\ cmp_result.version_term_count = Len(version_outline.terms)
            /\ cmp_result.status = "MATCH" =>
                   DOMAIN cmp_result = {"version", "matches", "status"})
    /\ [][current' = current /\ version_outline' = version_outline]_vars

C13_Witness ==
    /\ cmp_result # NotCalled
    /\ cmp_result.status = "NO_MATCH"
    /\ cmp_result.current_term_count = 2
    /\ cmp_result.version_term_count = 1
    /\ Len(current.terms[1].section) = 2
    /\ Len(version_outline.terms[1].combo) = 1

\* a match, which carries no count
C13_WitnessMatch ==
    /\ cmp_result # NotCalled
    /\ cmp_result.status = "MATCH"
    /\ Len(current.terms) = 2
    /\ "current_term_count" \notin DOMAIN cmp_result

\* the outline a well-formed reference document stands for
OutlineOfFile(file) ==
    CASE file = FileJson(docEmpty) -> EmptyOutline
      [] file = FileJson(docA) -> Outline(<<fIntro>>)
      [] file = FileJson(docB) -> Outline(<<fIntro, fBrokerSec>>)
LoadedVersions == {k \in 1..4 : disk[OutlinePath(versions_to_check[k])] \in GoodFiles}
EqualVersions ==
    {k \in LoadedVersions :
        OutlineOfFile(disk[OutlinePath(versions_to_check[k])]) = db_outline}
LinesTagged(tags) == {n \in 1..Len(out) : out[n].tag \in tags}
OutcomeTags == {"CURRENT_DEPLOYMENT", "NO_OUTLINE_DATA", "UNKNOWN_VERSION"}
VersionNames == <<"1", "2", "3", "4">>

\* C14: main loads the versions '1','2','3','4' in that order, compares the
\* ones that load, in that order, and reports exactly one outcome: the lowest
\* loaded version equal to the current outline as the current deployment,
\* with an upgrade note exactly when it is not '4'; else NO OUTLINE DATA when
\* the current outline is empty; else UNKNOWN VERSION.
C14_SummaryOutcome ==
    (pc = "done" /\ current_summary # NotCalled) =>
        /\ opened = [k \in 1..4 |-> OutlinePath(VersionNames[k])]
        /\ \A a, b \in 1..Len(comparison_results) :
               a < b => \E i, j \in LoadedVersions :
                            /\ i < j
                            /\ comparison_results[a].version = VersionNames[i]
                            /\ comparison_results[b].version = VersionNames[j]
        /\ Len(comparison_results) = Cardinality(LoadedVersions)
        /\ Cardinality(LinesTagged(OutcomeTags)) = 1
        /\ LET n == CHOOSE n \in LinesTagged(OutcomeTags) : TRUE
           IN  IF EqualVersions # {}
               THEN LET lowest == CHOOSE k \in EqualVersions :
                                      \A h \in EqualVersions : k <= h
                    IN  /\ out[n].tag = "CURRENT_DEPLOYMENT"
                        /\ out[n].version = VersionNames[lowest]
                        /\ (LinesTagged({"UPGRADE_NOTE"}) # {}) <=> (lowest # 4)
               ELSE /\ out[n].tag = IF Len(db_outline.terms) = 0
                                    THEN "NO_OUTLINE_DATA" ELSE "UNKNOWN_VERSION"
                    /\ LinesTagged({"UPGRADE_NOTE"}) = {}

C14_Witness ==
    /\ pc = "done"
    /\ current_summary # NotCalled
    /\ disk[OutlinePath("1")] = FileUnreadable
    /\ disk[OutlinePath("2")] = FileJson(docB)
    /\ disk[OutlinePath("3")] = FileJson(docA)
    /\ disk[OutlinePath("4")] = FileJson(docA)
    /\ db_outline = Outline(<<fIntro>>)
    /\ \E n \in 1..Len(out) : out[n].tag = "CURRENT_DEPLOYMENT" /\ out[n].version = "3"
    /\ LinesTagged({"UPGRADE_NOTE"}) # {}

\* an empty current outline that no loaded version equals
C14_WitnessNoData ==
    /\ pc = "done"
    /\ current_summary # NotCalled
    /\ db_outline = EmptyOutline
    /\ LoadedVersions # {}
    /\ LinesTagged({"NO_OUTLINE_DATA"}) # {}

====
